---------------------------- MODULE Spec2Model ----------------------------
(***************************************************************************)
(* A model of yisona.py: YisonaLocal, a dot-path accessor over a JSON      *)
(* document that is loaded at construction and written back whole after    *)
(* every mutation, and YisonaConnect, the remote client with the same      *)
(* method surface.                                                         *)
(*                                                                         *)
(* JSON values are tagged records.  A key path is a sequence of            *)
(* characters; a segment (a dictionary key) is a sequence of characters.   *)
(* Python's None is the JSON null, so "absent" and "null" are one value    *)
(* wherever the code returns None.                                         *)
(***************************************************************************)
EXTENDS Naturals, Sequences, FiniteSets

VARIABLES
    data,      \* data[i]: self.data of instance i, or NoInst before __init__
    file,      \* the backing file all instances are constructed on
    last,      \* the last call on a YisonaLocal: who, what, arguments, result
    lost,      \* history: the last step overwrote another instance's write
    server,    \* the remote document: key path -> value, or Absent
    rlast      \* the last call on the YisonaConnect client

vars == <<data, file, last, lost, server, rlast>>

-----------------------------------------------------------------------------
(* Bounds *)

\* integers 1..MaxInt are the numbers callers write
MaxInt == 1

-----------------------------------------------------------------------------
(* JSON values *)

Null == [t |-> "null"]
Num(n) == [t |-> "num", n |-> n]
Str(s) == [t |-> "str", s |-> s]
Lst(e) == [t |-> "list", e |-> e]
Dict(m) == [t |-> "dict", m |-> m]

EmptyMap == << >>

IsDict(v) == v.t = "dict"

\* m[k] = v, on a mapping m
Put(m, k, v) == [x \in (DOMAIN m) \cup {k} |-> IF x = k THEN v ELSE m[x]]

\* del m[k]
Del(m, k) == [x \in (DOMAIN m) \ {k} |-> m[x]]

\* the key paths "a", "b", "a.b", "a.b.c" and their segments
Ka == <<"a">>
Kb == <<"b">>
Kab == <<"a", ".", "b">>
Kabc == <<"a", ".", "b", ".", "c">>
Sa == <<"a">>
Sb == <<"b">>

Keys == {Ka, Kb, Kab, Kabc}

\* the values callers pass to write_json / cc
Vals == {Null} \cup {Num(n) : n \in 1..MaxInt}

\* str(key).split('.')
RECURSIVE Split(_)
Split(s) ==
    IF \A i \in DOMAIN s : s[i] # "."
    THEN <<s>>
    ELSE LET i == CHOOSE i \in DOMAIN s :
                    s[i] = "." /\ \A j \in 1..(i - 1) : s[j] # "."
         IN <<SubSeq(s, 1, i - 1)>> \o Split(SubSeq(s, i + 1, Len(s)))

-----------------------------------------------------------------------------
(* The backing file *)

Missing == [k |-> "missing"]
Unreadable == [k |-> "unreadable"]
Malformed == [k |-> "malformed"]

\* json.dump(doc, file): the file holds the text of doc, named by the value
\* json.load gives back for it
Json(doc) == [k |-> "json", v |-> doc]

\* documents found in the backing file at start
DocEmpty == Dict(EmptyMap)
DocAB1 == Dict(Put(EmptyMap, Sa, Dict(Put(EmptyMap, Sb, Num(1)))))
DocStr == Dict(Put(Put(EmptyMap, Sa,
                       Dict(Put(EmptyMap, Sb, Str(<<"1", "2">>)))),
                   Sb, Str(<<"x">>)))
DocLst == Dict(Put(Put(EmptyMap, Sa, Lst(<<Num(1)>>)), Sb, Str(<<"1", "x">>)))
RootList == Lst(<<Str(Sa)>>)
RootStr == Str(<<"a", "b">>)
RootNum == Num(1)

InitFiles ==
    {Missing, Unreadable, Malformed}
        \cup {Json(d) : d \in {DocEmpty, DocAB1, DocStr, DocLst,
                               RootList, RootStr, RootNum, Null}}

\* outcomes of open(path, 'w') + json.dump: written; open raised IOError (file
\* untouched); IOError after open truncated the file
IO == {"ok", "open_fail", "write_fail"}

\* a variant writing through a temporary file and a rename: a failed write
\* never touches the file
PersistAtomic(io, doc) == IF io = "ok" THEN Json(doc) ELSE file

Persist(io, doc) ==
    CASE io = "ok" -> Json(doc)
      [] io = "open_fail" -> file
      [] io = "write_fail" -> Malformed

-----------------------------------------------------------------------------
(* Results *)

NoInst == [t |-> "noinst"]
Raised == [t |-> "raised"]
NoRet == [t |-> "none"]
Bool(b) == [t |-> "bool", b |-> b]

Call(i, op, key, val, io, ret) ==
    [inst |-> i, op |-> op, key |-> key, val |-> val, io |-> io, ret |-> ret]

NoCall == Call("-", "none", <<>>, Null, "none", NoRet)

-----------------------------------------------------------------------------
(* YisonaLocal: pure parts *)

\* get_json's loop over the segments
RECURSIVE Walk(_, _)
Walk(value, keys) ==
    IF keys = <<>> THEN value
    ELSE IF IsDict(value)
         THEN Walk(IF Head(keys) \in DOMAIN value.m
                   THEN value.m[Head(keys)] ELSE Null,
                   Tail(keys))
         ELSE Null

get_json(doc, key) == Walk(doc, Split(key))

\* write_json / cc: the mapping descended into at segment k, created or
\* replacing a non-mapping
Descend(cur, k) ==
    IF k \notin DOMAIN cur THEN EmptyMap
    ELSE IF ~IsDict(cur[k]) THEN EmptyMap
    ELSE cur[k].m

\* write_json's walk and final assignment, on a mapping
RECURSIVE WriteWalk(_, _, _)
WriteWalk(cur, keys, value) ==
    IF Len(keys) = 1
    THEN Put(cur, keys[1], value)
    ELSE Put(cur, Head(keys),
             Dict(WriteWalk(Descend(cur, Head(keys)), Tail(keys), value)))

\* a variant of cc's walk that assigns the default over an existing key and
\* still reports it as existing
RECURSIVE CcWalkOverwrite(_, _, _)
CcWalkOverwrite(cur, keys, default_value) ==
    IF Len(keys) = 1
    THEN [m |-> Put(cur, keys[1], default_value),
          existed |-> keys[1] \in DOMAIN cur]
    ELSE LET r == CcWalkOverwrite(Descend(cur, Head(keys)), Tail(keys),
                                  default_value)
         IN [m |-> Put(cur, Head(keys), Dict(r.m)), existed |-> r.existed]

\* cc's walk, check of the final key and assignment of the default
RECURSIVE CcWalk(_, _, _)
CcWalk(cur, keys, default_value) ==
    IF Len(keys) = 1
    THEN IF keys[1] \in DOMAIN cur
         THEN [m |-> cur, existed |-> TRUE]
         ELSE [m |-> Put(cur, keys[1], default_value), existed |-> FALSE]
    ELSE LET r == CcWalk(Descend(cur, Head(keys)), Tail(keys), default_value)
         IN [m |-> Put(cur, Head(keys), Dict(r.m)), existed |-> r.existed]

\* a variant of delete_json's walk that also removes a parent mapping the
\* deletion has emptied
RECURSIVE DelWalkPrune(_, _)
DelWalkPrune(cur, keys) ==
    IF ~IsDict(cur) THEN [v |-> cur, removed |-> FALSE]
    ELSE IF Head(keys) \notin DOMAIN cur.m THEN [v |-> cur, removed |-> FALSE]
    ELSE IF Len(keys) = 1
         THEN [v |-> Dict(Del(cur.m, keys[1])), removed |-> TRUE]
         ELSE LET r == DelWalkPrune(cur.m[Head(keys)], Tail(keys))
              IN [v |-> IF r.removed /\ r.v = Dict(EmptyMap)
                        THEN Dict(Del(cur.m, Head(keys)))
                        ELSE Dict(Put(cur.m, Head(keys), r.v)),
                  removed |-> r.removed]

\* delete_json's walk and del
RECURSIVE DelWalk(_, _)
DelWalk(cur, keys) ==
    IF ~IsDict(cur) THEN [v |-> cur, removed |-> FALSE]
    ELSE IF Head(keys) \notin DOMAIN cur.m THEN [v |-> cur, removed |-> FALSE]
    ELSE IF Len(keys) = 1
         THEN [v |-> Dict(Del(cur.m, keys[1])), removed |-> TRUE]
         ELSE LET r == DelWalk(cur.m[Head(keys)], Tail(keys))
              IN [v |-> Dict(Put(cur.m, Head(keys), r.v)),
                  removed |-> r.removed]

\* s occurs in t as a contiguous run (Python's "s in t" on strings)
Substring(s, t) ==
    \E i \in 0..(Len(t) - Len(s)) : SubSeq(t, i + 1, i + Len(s)) = s

\* "k in current" when current is not a dict: a list holds the string k, a
\* string contains it; on a number or None the test raises TypeError
PyIn(k, cur) ==
    CASE cur.t = "list" ->
            IF \E j \in DOMAIN cur.e : cur.e[j] = Str(k) THEN "yes" ELSE "no"
      [] cur.t = "str" -> IF Substring(k, cur.s) THEN "yes" ELSE "no"
      [] OTHER -> "raise"

\* float(s) on a string of digits and letters: the decimal value, or
\* ValueError
Digit(c) ==
    CASE c = "0" -> 0 [] c = "1" -> 1 [] c = "2" -> 2 [] c = "3" -> 3
      [] c = "4" -> 4 [] c = "5" -> 5 [] c = "6" -> 6 [] c = "7" -> 7
      [] c = "8" -> 8 [] c = "9" -> 9 [] OTHER -> 10

RECURSIVE ParseDigits(_, _)
ParseDigits(s, acc) ==
    IF s = <<>> THEN acc
    ELSE ParseDigits(Tail(s), 10 * acc + Digit(Head(s)))

\* a variant of float() that reads the leading digits and ignores the rest,
\* as C's atof does
ParseFloatPrefix(s) ==
    IF s # <<>> /\ Digit(s[1]) < 10
    THEN LET n == CHOOSE n \in 1..Len(s) :
                    /\ \A i \in 1..n : Digit(s[i]) < 10
                    /\ n < Len(s) => Digit(s[n + 1]) = 10
         IN Num(ParseDigits(SubSeq(s, 1, n), 0))
    ELSE Raised

ParseFloat(s) ==
    IF s # <<>> /\ \A i \in DOMAIN s : Digit(s[i]) < 10
    THEN Num(ParseDigits(s, 0))
    ELSE Raised

\* get_json_as_number after the get_json call
AsNumber(value) ==
    IF value.t = "num" THEN value
    ELSE IF value.t = "str"
         THEN IF ParseFloat(value.s) = Raised THEN Null
              ELSE ParseFloat(value.s)
         ELSE Null

-----------------------------------------------------------------------------
(* YisonaLocal: operations *)

Inst == {"A", "B"}

\* history: the call before this one was another instance's successful
\* write_json of an unrelated key, and the file written now no longer holds
\* that value at that key
LostUpdate(i, key, newfile) ==
    /\ last.op = "write"
    /\ last.ret = Bool(TRUE)
    /\ last.inst # i
    /\ Head(Split(last.key)) # Head(Split(key))
    /\ last.val # Null
    /\ newfile.k = "json"
    /\ get_json(newfile.v, last.key) # last.val

\* __init__: load the file; a missing file gives {} and is created, invalid
\* JSON gives {}; any other error of open() and any error while creating the
\* file is not caught
Construct(i, io) ==
    /\ file.k = "missing" \/ io = "ok"
    /\ CASE file.k = "json" ->
              /\ data' = [data EXCEPT ![i] = file.v]
              /\ file' = file
              /\ last' = Call(i, "init", <<>>, Null, "none", NoRet)
         [] file.k = "malformed" ->
              /\ data' = [data EXCEPT ![i] = DocEmpty]
              /\ file' = file
              /\ last' = Call(i, "init", <<>>, Null, "none", NoRet)
         [] file.k = "unreadable" ->
              /\ UNCHANGED <<data, file>>
              /\ last' = Call(i, "init", <<>>, Null, "none", Raised)
         [] file.k = "missing" ->
              /\ data' = IF io = "ok" THEN [data EXCEPT ![i] = DocEmpty]
                         ELSE data
              /\ file' = IF io = "open_fail" THEN file
                         ELSE Persist(io, DocEmpty)
              /\ last' = Call(i, "init", <<>>, Null, io,
                              IF io = "ok" THEN NoRet ELSE Raised)
    /\ lost' = FALSE
    /\ UNCHANGED <<server, rlast>>

\* a variant of write_json that reloads the document from the file before
\* it applies the write
WriteStepReload(i, op, key, value, io) ==
    /\ data[i] # NoInst
    /\ IF IsDict(data[i])
       THEN LET base == IF file.k = "json" /\ IsDict(file.v)
                        THEN file.v ELSE data[i]
                doc == Dict(WriteWalk(base.m, Split(key), value))
            IN /\ data' = [data EXCEPT ![i] = doc]
               /\ file' = Persist(io, doc)
               /\ last' = Call(i, op, key, value, io, Bool(io = "ok"))
               /\ lost' = (io = "ok" /\ LostUpdate(i, key, Json(doc)))
       ELSE /\ io = "ok"
            /\ UNCHANGED <<data, file>>
            /\ last' = Call(i, op, key, value, "none", Raised)
            /\ lost' = FALSE
    /\ UNCHANGED <<server, rlast>>

\* write_json and create_json (which only calls write_json)
WriteStep(i, op, key, value, io) ==
    /\ data[i] # NoInst
    /\ IF IsDict(data[i])
       THEN LET doc == Dict(WriteWalk(data[i].m, Split(key), value))
            IN /\ data' = [data EXCEPT ![i] = doc]
               /\ file' = Persist(io, doc)
               /\ last' = Call(i, op, key, value, io, Bool(io = "ok"))
               /\ lost' = (io = "ok" /\ LostUpdate(i, key, Json(doc)))
       ELSE \* indexing or "in" on a non-dict root raises TypeError
            /\ io = "ok"
            /\ UNCHANGED <<data, file>>
            /\ last' = Call(i, op, key, value, "none", Raised)
            /\ lost' = FALSE
    /\ UNCHANGED <<server, rlast>>

write_json(i, key, value, io) == WriteStep(i, "write", key, value, io)

\* create_json returns write_json(key, value): the same call
create_json(i, key, value, io) == write_json(i, key, value, io)

cc(i, key, default_value, io) ==
    /\ data[i] # NoInst
    /\ IF IsDict(data[i])
       THEN LET r == CcWalk(data[i].m, Split(key), default_value)
            IN /\ data' = [data EXCEPT ![i] = Dict(r.m)]
               /\ IF r.existed
                  THEN /\ io = "ok"
                       /\ file' = file
                       /\ last' = Call(i, "cc", key, default_value, "none",
                                       Bool(TRUE))
                  ELSE /\ file' = Persist(io, Dict(r.m))
                       /\ last' = Call(i, "cc", key, default_value, io,
                                       Bool(FALSE))
       ELSE /\ io = "ok"
            /\ UNCHANGED <<data, file>>
            /\ last' = Call(i, "cc", key, default_value, "none",
                            IF Len(Split(key)) = 1
                               /\ PyIn(Split(key)[1], data[i]) = "yes"
                            THEN Bool(TRUE) ELSE Raised)
    /\ lost' = FALSE
    /\ UNCHANGED <<server, rlast>>

delete_json(i, key, io) ==
    /\ data[i] # NoInst
    /\ LET r == DelWalk(data[i], Split(key))
       IN IF r.removed
          THEN /\ data' = [data EXCEPT ![i] = r.v]
               /\ file' = Persist(io, r.v)
               /\ last' = Call(i, "delete", key, Null, io, Bool(io = "ok"))
          ELSE /\ io = "ok"
               /\ UNCHANGED <<data, file>>
               /\ last' = Call(i, "delete", key, Null, "none", Bool(FALSE))
    /\ lost' = FALSE
    /\ UNCHANGED <<server, rlast>>

GetJson(i, key) ==
    /\ data[i] # NoInst
    /\ last' = Call(i, "get", key, Null, "none", get_json(data[i], key))
    /\ lost' = FALSE
    /\ UNCHANGED <<data, file, server, rlast>>

get_json_as_number(i, key) ==
    /\ data[i] # NoInst
    /\ last' = Call(i, "getnum", key, Null, "none",
                    AsNumber(get_json(data[i], key)))
    /\ lost' = FALSE
    /\ UNCHANGED <<data, file, server, rlast>>

-----------------------------------------------------------------------------
(* One YisonaLocal instance on a backing file of any content *)

NoServer == << >>
NoRCall == [op |-> "none"]

Init ==
    /\ data = [i \in Inst |-> NoInst]
    /\ file \in InitFiles
    /\ last = NoCall
    /\ lost = FALSE
    /\ server = NoServer
    /\ rlast = NoRCall

Next ==
    \/ \E io \in IO : Construct("A", io)
    \/ \E key \in Keys, value \in Vals, io \in IO :
            write_json("A", key, value, io)
    \/ \E key \in Keys, value \in Vals, io \in IO :
            cc("A", key, value, io)
    \/ \E key \in Keys, io \in IO : delete_json("A", key, io)
    \/ \E key \in Keys : GetJson("A", key)
    \/ \E key \in Keys : get_json_as_number("A", key)

Spec == Init /\ [][Next]_vars

-----------------------------------------------------------------------------
(* Two YisonaLocal instances constructed on the same backing file *)

InitTwo ==
    /\ data = [i \in Inst |-> NoInst]
    /\ file \in {Missing, Json(DocEmpty), Json(DocAB1)}
    /\ last = NoCall
    /\ lost = FALSE
    /\ server = NoServer
    /\ rlast = NoRCall

\* the two instances are driven with the root-level keys; a file write may
\* succeed or fail at open
KeysTwo == {Ka, Kb}
IOTwo == {"ok", "open_fail"}

NextTwo ==
    \/ \E i \in Inst : Construct(i, "ok")
    \/ \E i \in Inst, key \in KeysTwo, value \in Vals, io \in IOTwo :
            write_json(i, key, value, io)
    \/ \E i \in Inst, key \in KeysTwo, value \in Vals, io \in IOTwo :
            create_json(i, key, value, io)
    \/ \E i \in Inst, key \in KeysTwo, io \in IOTwo : delete_json(i, key, io)
    \/ \E i \in Inst, key \in KeysTwo : GetJson(i, key)

SpecTwo == InitTwo /\ [][NextTwo]_vars

-----------------------------------------------------------------------------
(* YisonaConnect *)

Absent == [t |-> "absent"]

\* the remote service keeps a value per key path; GET answers {key: value}
\* for a stored key, PUT stores the value, DELETE removes the key
RKeys == {Ka, Kab}
ServerGetBody(key) ==
    IF server[key] = Absent THEN EmptyMap ELSE Put(EmptyMap, key, server[key])
ServerPut(key, value) == [server EXCEPT ![key] = value]
ServerDelete(key) == [server EXCEPT ![key] = Absent]

\* what a request ends in: status 200, another status, an exception of the
\* transport
Resp == {"200", "error", "failed"}

\* the JSON body write_json sends: nested along the dots
RECURSIVE Nest(_, _)
Nest(parts, value) ==
    IF Len(parts) = 1 THEN Put(EmptyMap, parts[1], value)
    ELSE Put(EmptyMap, Head(parts), Dict(Nest(Tail(parts), value)))

PutBody(key, value) ==
    IF \E i \in DOMAIN key : key[i] = "."
    THEN Dict(Nest(Split(key), value))
    ELSE Dict(Put(EmptyMap, key, value))

\* get_json(key) with a key: data.get(key) of a 200 body, None otherwise
remote_get(key, resp) ==
    IF resp = "200"
    THEN IF key \in DOMAIN ServerGetBody(key)
         THEN ServerGetBody(key)[key] ELSE Null
    ELSE Null

NoPut == [t |-> "noput"]

RCall(op, key, val, ret, put) ==
    [op |-> op, key |-> key, val |-> val, ret |-> ret, put |-> put]

RGetJson(key, resp) ==
    /\ rlast' = RCall("get", key, Null, remote_get(key, resp), NoPut)
    /\ UNCHANGED <<data, file, last, lost, server>>

RWriteJson(key, value, resp) ==
    /\ rlast' = RCall("write", key, value, Bool(resp = "200"),
                      PutBody(key, value))
    /\ server' = IF resp = "200" THEN ServerPut(key, value) ELSE server
    /\ UNCHANGED <<data, file, last, lost>>

RGetJsonAsNumber(key, resp) ==
    /\ rlast' = RCall("getnum", key, Null, AsNumber(remote_get(key, resp)),
                      NoPut)
    /\ UNCHANGED <<data, file, last, lost, server>>

RDeleteJson(key, resp) ==
    /\ rlast' = RCall("delete", key, Null, Bool(resp = "200"), NoPut)
    /\ server' = IF resp = "200" THEN ServerDelete(key) ELSE server
    /\ UNCHANGED <<data, file, last, lost>>

\* cc: get_json, then write_json of the default when the value is None
RCc(key, default_value, getresp, putresp) ==
    /\ IF remote_get(key, getresp) = Null
       THEN /\ rlast' = RCall("cc", key, default_value, Bool(FALSE),
                              PutBody(key, default_value))
            /\ server' = IF putresp = "200"
                         THEN ServerPut(key, default_value) ELSE server
       ELSE /\ putresp = "200"
            /\ rlast' = RCall("cc", key, default_value, Bool(TRUE), NoPut)
            /\ server' = server
    /\ UNCHANGED <<data, file, last, lost>>

InitRemote ==
    /\ data = [i \in Inst |-> NoInst]
    /\ file = Missing
    /\ last = NoCall
    /\ lost = FALSE
    /\ server \in [RKeys -> Vals \cup {Absent, Str(<<"1", "2">>)}]
    /\ rlast = NoRCall

NextRemote ==
    \/ \E key \in RKeys, resp \in Resp : RGetJson(key, resp)
    \/ \E key \in RKeys, value \in Vals, resp \in Resp :
            RWriteJson(key, value, resp)
    \/ \E key \in RKeys, resp \in Resp : RGetJsonAsNumber(key, resp)
    \/ \E key \in RKeys, resp \in Resp : RDeleteJson(key, resp)
    \/ \E key \in RKeys, value \in Vals, getresp \in Resp, putresp \in Resp :
            RCc(key, value, getresp, putresp)

SpecRemote == InitRemote /\ [][NextRemote]_vars

-----------------------------------------------------------------------------
(* Observers used to state the properties *)

Front(q) == SubSeq(q, 1, Len(q) - 1)

IsPrefix(p, q) == Len(p) <= Len(q) /\ SubSeq(q, 1, Len(p)) = p

\* the terminal key of the path is present in its parent mapping
TermPresent(doc, segs) ==
    /\ IsDict(Walk(doc, Front(segs)))
    /\ segs[Len(segs)] \in DOMAIN Walk(doc, Front(segs)).m

\* every proper prefix of the path, the root included, resolves to a mapping
PrefixesAreMappings(doc, segs) ==
    \A n \in 0..(Len(segs) - 1) : IsDict(Walk(doc, SubSeq(segs, 1, n)))

\* a document as the set of its leaves: <<path, value>> for every value that
\* is not a non-empty mapping
RECURSIVE Leaves(_, _)
Leaves(v, path) ==
    IF IsDict(v) /\ DOMAIN v.m # {}
    THEN UNION {Leaves(v.m[k], Append(path, k)) : k \in DOMAIN v.m}
    ELSE {<<path, v>>}

\* the leaves left when exactly the key at segs is removed: nothing at or
\* below segs, everything else, and the parent kept as an empty mapping when
\* segs was its only key
LeavesWithout(doc, segs) ==
    {e \in Leaves(doc, <<>>) : ~IsPrefix(segs, e[1])}
        \cup (IF DOMAIN Walk(doc, Front(segs)).m = {segs[Len(segs)]}
              THEN {<<Front(segs), DocEmpty>>} ELSE {})

Mutators == {"write", "cc", "delete"}

\* a string float() reads as a number, and the number it denotes
NumericLooking(s) ==
    s # <<>> /\ \A i \in DOMAIN s :
        s[i] \in {"0", "1", "2", "3", "4", "5", "6", "7", "8", "9"}

RECURSIVE Pow10(_)
Pow10(n) == IF n = 0 THEN 1 ELSE 10 * Pow10(n - 1)

RECURSIVE DecimalValue(_)
DecimalValue(s) ==
    IF s = <<>> THEN 0
    ELSE Digit(Head(s)) * Pow10(Len(s) - 1) + DecimalValue(Tail(s))

-----------------------------------------------------------------------------
(* Properties *)

\* C1: after write_json(p, v) (or create_json), on any document the instance
\* can hold, the call returned, get_json(p) on the same instance returns v and
\* every intermediate on the path is a mapping.
C1_WriteThenRead ==
    last.op = "write" =>
        /\ last.ret # Raised
        /\ get_json(data[last.inst], last.key) = last.val
        /\ PrefixesAreMappings(data[last.inst], Split(last.key))

\* C2: cc(p, d) on a document where p's terminal key is absent from its
\* parent mapping returns False and leaves get_json(p) = d; where the key is
\* present it returns True and changes neither the document nor the file.
C2_CcGetOrCreate ==
    [][last'.op = "cc" =>
        IF TermPresent(data[last'.inst], Split(last'.key))
        THEN /\ last'.ret = Bool(TRUE)
             /\ data' = data
             /\ file' = file
        ELSE /\ last'.ret = Bool(FALSE)
             /\ get_json(data'[last'.inst], last'.key) = last'.val]_vars

\* C3 as stated: delete_json(p) on a present terminal key removes exactly
\* that key and returns True; otherwise it returns False and changes nothing.
C3_DeleteReturnsTrue ==
    [][last'.op = "delete" =>
        IF TermPresent(data[last'.inst], Split(last'.key))
        THEN /\ Leaves(data'[last'.inst], <<>>)
                    = LeavesWithout(data[last'.inst], Split(last'.key))
             /\ \A j \in Inst \ {last'.inst} : data'[j] = data[j]
             /\ last'.ret = Bool(TRUE)
        ELSE /\ last'.ret = Bool(FALSE)
             /\ data' = data
             /\ file' = file]_vars

\* C3 amended: delete_json(p) on a present terminal key removes exactly that
\* key (siblings and every other part unchanged, an emptied parent kept) and
\* returns True when the file write succeeds, False when it fails; when an
\* intermediate is missing or not a mapping, or the terminal key is absent,
\* it returns False and changes neither the document nor the file.
C3_DeleteFrame ==
    [][last'.op = "delete" =>
        IF TermPresent(data[last'.inst], Split(last'.key))
        THEN /\ Leaves(data'[last'.inst], <<>>)
                    = LeavesWithout(data[last'.inst], Split(last'.key))
             /\ \A j \in Inst \ {last'.inst} : data'[j] = data[j]
             /\ last'.io # "none"
             /\ last'.ret = Bool(last'.io = "ok")
        ELSE /\ last'.ret = Bool(FALSE)
             /\ last'.io = "none"
             /\ data' = data
             /\ file' = file]_vars

\* C3 witness: "a.b" was deleted with success, its emptied parent "a" is
\* kept and the sibling "b" of "a" is still there.
C3_Witness ==
    /\ last.op = "delete"
    /\ last.key = Kab
    /\ last.ret = Bool(TRUE)
    /\ Walk(data[last.inst], <<Sa>>) = DocEmpty
    /\ Walk(data[last.inst], <<Sb>>) = Str(<<"x">>)

\* C4 as stated: once write_json, create_json, a creating cc or a removing
\* delete_json has completed, the file holds exactly the in-memory document.
C4_PersistAfterEveryMutation ==
    (last.op \in Mutators /\ last.io # "none") =>
        file = Json(data[last.inst])

\* C4 amended: every call that changes the in-memory document attempts the
\* file write, and once the file write of a mutating operation has succeeded
\* the file holds exactly the in-memory document (a failed write leaves the
\* mutation in memory only).
C4_PersistWhenWriteSucceeds ==
    [][last'.op \in Mutators =>
        /\ data'[last'.inst] # data[last'.inst] => last'.io # "none"
        /\ last'.io = "ok" => file' = Json(data'[last'.inst])]_vars

\* C4 witness: a cc created a key below a replaced intermediate and the file
\* holds the new document.
C4_Witness ==
    /\ last.op = "cc"
    /\ last.ret = Bool(FALSE)
    /\ last.io = "ok"
    /\ last.key = Kabc
    /\ file = Json(data[last.inst])
    /\ get_json(data[last.inst], Kb) # Null

\* C5: no call ends in a raised error.
C5_NoFaultEscapes == last.ret # Raised

\* C6: the root of every instance's document is a mapping, and after a
\* write_json / create_json or a creating cc every proper prefix of the path
\* resolves to a mapping.
C6_RootIsMapping ==
    /\ \A i \in Inst : data[i] # NoInst => IsDict(data[i])
    /\ (last.op \in {"write", "cc"} /\ last.io # "none") =>
            PrefixesAreMappings(data[last.inst], Split(last.key))

\* C7: get_json_as_number(p) returns the value of get_json(p) unchanged when
\* it is a number, the number a numeric-looking string denotes, and None for
\* any other string, a mapping, a sequence and an absent key; the document
\* and the file are not modified.
C7_AsNumber ==
    [][last'.op = "getnum" =>
        LET v == get_json(data[last'.inst], last'.key)
        IN /\ v.t = "num" => last'.ret = v
           /\ (v.t = "str" /\ NumericLooking(v.s)) =>
                    last'.ret = Num(DecimalValue(v.s))
           /\ (v.t = "str" /\ ~NumericLooking(v.s)) => last'.ret = Null
           /\ v.t \in {"dict", "list", "null"} => last'.ret = Null
           /\ data' = data
           /\ file' = file]_vars

\* C7 witness: the string "12" stored at "a.b" was read as the number 12.
C7_Witness ==
    /\ last.op = "getnum"
    /\ get_json(data[last.inst], last.key) = Str(<<"1", "2">>)
    /\ last.ret = Num(12)

\* C8: the remote cc returns True and sends no write when the key is present
\* on the server, whatever the read request ends in, and the server's value
\* stays; when the key is absent it sends the write and returns False.
C8_RemoteCcKeepsExisting ==
    [][rlast'.op = "cc" =>
        IF server[rlast'.key] # Absent
        THEN /\ rlast'.ret = Bool(TRUE)
             /\ rlast'.put = NoPut
             /\ server' = server
        ELSE /\ rlast'.ret = Bool(FALSE)
             /\ rlast'.put # NoPut]_vars

\* C9: a successful write_json writes the writer's whole in-memory copy: at
\* every key unrelated to the written one the file then holds what the writer
\* had in memory, whatever the file held, and no other instance's copy is
\* refreshed.
C9_WholeDocumentWritten ==
    [][(last'.op = "write" /\ last'.ret = Bool(TRUE)) =>
        /\ file'.k = "json"
        /\ \A p \in Keys :
              Head(Split(p)) # Head(Split(last'.key)) =>
                  get_json(file'.v, p) = get_json(data[last'.inst], p)
        /\ \A j \in Inst \ {last'.inst} : data'[j] = data[j]]_vars

\* C9 witness: B's successful write_json followed A's successful write_json
\* of an unrelated key, and the file no longer holds A's value, which A still
\* has in memory.
C9_LostUpdate ==
    /\ lost
    /\ last.inst = "B"
    /\ last.op = "write"
    /\ last.ret = Bool(TRUE)
    /\ \E p \in Keys :
          /\ Head(Split(p)) # Head(Split(last.key))
          /\ get_json(data["A"], p) # Null
          /\ get_json(file.v, p) = Null

\* the in-memory effect of the mutating call of this step is in place
MutationKept ==
    LET i == last'.inst
        segs == Split(last'.key)
    IN CASE last'.op = "write" ->
                get_json(data'[i], last'.key) = last'.val
         [] last'.op = "cc" ->
                /\ ~TermPresent(data[i], segs)
                /\ TermPresent(data'[i], segs)
                /\ get_json(data'[i], last'.key) = last'.val
         [] last'.op = "delete" ->
                /\ TermPresent(data[i], segs)
                /\ ~TermPresent(data'[i], segs)

\* C10 as stated: when the file write of write_json, a creating cc or a
\* removing delete_json fails, the call returns False, the in-memory document
\* keeps the mutation and the file keeps its previous content.
C10_FailedWriteKeepsFile ==
    [][(last'.op \in Mutators /\ last'.io \in {"open_fail", "write_fail"}) =>
        /\ last'.ret = Bool(FALSE)
        /\ MutationKept
        /\ file' = file]_vars

\* C10 amended: when the file write fails the call returns False (for cc the
\* same value as for a successful creation) and the in-memory document keeps
\* the mutation; the file keeps its previous content when it could not be
\* opened, and is left truncated, holding no document, when the error came
\* after it was opened for writing.
C10_FailedWriteNotRolledBack ==
    [][(last'.op \in Mutators /\ last'.io \in {"open_fail", "write_fail"}) =>
        /\ last'.ret = Bool(FALSE)
        /\ MutationKept
        /\ last'.io = "open_fail" => file' = file
        /\ last'.io = "write_fail" => file'.k = "malformed"]_vars

\* C10 witness: a write_json whose file could not be opened returned False;
\* the instance reads the new value, the file still holds a document without
\* it.
C10_Witness ==
    /\ last.op = "write"
    /\ last.io = "open_fail"
    /\ last.ret = Bool(FALSE)
    /\ get_json(data[last.inst], last.key) = last.val
    /\ file.k = "json"
    /\ get_json(file.v, last.key) # last.val

=============================================================================
